---- MODULE Spec2Model ----
(***************************************************************************)
(* A model of examples/DynamicFilterNetwork/steering-filter.py: the        *)
(* steerable Gaussian filter of ThetaImages (get_filter,                   *)
(* filter_with_theta, __iter__) and the DynamicConvFilter layer.           *)
(*                                                                         *)
(* Numbers.  The program computes in floating point; the model computes    *)
(* in exact fixed point so that the algebra is decided exactly:            *)
(*   - np.exp(-(x**2) / (2 * sigma**2)) is a table of ExpScale-ths;        *)
(*   - an angle is a whole number of ticks, eight to the turn: tick 2q is  *)
(*     q * pi/2 and tick 2q+1 is q * pi/2 + atan(4/3), so that np.cos and  *)
(*     np.sin are exact multiples of 1/5 (TrigScale-ths);                  *)
(*   - pixels are small integers.                                          *)
(* A 2D array is a sequence of rows, each a sequence of numbers.           *)
(***************************************************************************)
EXTENDS Integers, Sequences, FiniteSets, TLC

VARIABLES
  image,        \* filter_with_theta's argument `image`
  theta,        \* the argument `theta`, in ticks
  sigma,        \* the argument `sigma`
  filter_size,  \* the argument `filter_size`
  out,          \* what filter_with_theta returned: <<output, gt_filter>>, <<>> before the call
  xs,           \* the index vector x get_filter built, <<>> before the call
  kernels,      \* what get_filter returned for theta, theta + pi, theta + 2 pi, in call order
  calls,        \* the log of calls of the static methods: [fn, args, ret], oldest first
  ds,           \* ThetaImages.ds: the upstream sequence of <<image, label>>
  seeded,       \* whether reset_state has set self.rng
  pos,          \* how many upstream pairs __iter__ has consumed
  yielded,      \* the datapoints __iter__ has yielded, in order
  stopped,      \* whether __iter__ has returned
  given,        \* the image handed to the concurrent invocations
  shared,       \* that image object, as the invocations see it now
  wtheta,       \* worker -> its theta
  wpc,          \* worker -> the line of filter_with_theta it is about to run
  wloc,         \* worker -> its local variables
  wret,         \* worker -> what its invocation returned, <<>> before that
  inputs,       \* DynamicConvFilter's `inputs`, a [b, h, w, 1] tensor
  filters,      \* DynamicConvFilter's `filters`, a [b, k, k, 1] tensor
  kernel_shape, \* DynamicConvFilter's `kernel_shape`
  stride,       \* DynamicConvFilter's `stride`
  padding,      \* DynamicConvFilter's `padding`
  rsl           \* <<the tensor DynamicConvFilter returned>>, <<>> before the call

argVars == <<image, theta, sigma, filter_size, out, xs, kernels>>
callVars == <<calls>>
iterVars == <<ds, seeded, pos, yielded, stopped>>
concVars == <<given, shared, wtheta, wpc, wloc, wret>>
dynVars == <<inputs, filters, kernel_shape, stride, padding, rsl>>

vars == <<argVars, callVars, iterVars, concVars, dynVars>>

----------------------------------------------------------------------------
(* Bounds of the model *)

MaxDim == 2          \* images are H x W with H, W in 1..MaxDim
MaxFilterSize == 3   \* filter_size ranges over 1..MaxFilterSize and the default
MaxCalls == 3        \* the calls of one logged run
MaxLen == 2          \* the length of the upstream sequence
NumWorkers == 2      \* the concurrent invocations of filter_with_theta
MaxBatch == 2        \* the batch size b of DynamicConvFilter

(* Program constants *)

DefaultFilterSize == 9
DefaultSigma == 1

Pixels == {0, 1}
Sigmas == {1, 2}
FilterSizes == (1..MaxFilterSize) \cup {DefaultFilterSize}

----------------------------------------------------------------------------
(* numpy *)

ExpScale == 5000
TrigScale == 5
TurnTicks == 8       \* 2 * np.pi, in ticks
PiTicks == 4         \* np.pi, in ticks

Thetas == 0..(TurnTicks - 1)    \* the angles of [0, 2 pi)

\* np.exp(-n / (2 * sigma**2)) for n = x**2, in ExpScale-ths, rounded to a
\* multiple of sigma (so that (x / sigma) * exp is a whole number of them)
NpExpNeg(n, s) ==
  IF s = 1
  THEN CASE n = 0 -> ExpScale [] n = 1 -> 3033 [] n = 4 -> 677
         [] n = 9 -> 56   [] n = 16 -> 2   [] OTHER -> 0
  ELSE CASE n = 0 -> ExpScale [] n = 1 -> 4412 [] n = 4 -> 3032
         [] n = 9 -> 1624 [] n = 16 -> 676 [] n = 25 -> 220
         [] OTHER -> 0

\* np.cos(theta), in TrigScale-ths
NpCos(t) == <<5, 3, 0, -4, -5, -3, 0, 4>>[(t % TurnTicks) + 1]

\* np.sin(theta), in TrigScale-ths
NpSin(t) == <<0, 4, 5, 3, 0, -4, -5, -3>>[(t % TurnTicks) + 1]

\* an array as a sequence of its entries
Array(f) == <<>> \o f

\* np.arange(a, b)
NpArange(a, b) == Array([i \in 1..(IF b > a THEN b - a ELSE 0) |-> a + i - 1])

RECURSIVE SumTo(_, _)
SumTo(f, n) == IF n = 0 THEN 0 ELSE f[n] + SumTo(f, n - 1)

Shape(m) == <<Len(m), Len(m[1])>>

\* m.T
Transpose(m) ==
  Array([j \in 1..Len(m[1]) |-> Array([i \in 1..Len(m) |-> m[i][j]])])

\* np.matmul(a, b)
MatMul(a, b) ==
  Array([i \in 1..Len(a) |-> Array([j \in 1..Len(b[1]) |->
     SumTo([k \in 1..Len(b) |-> a[i][k] * b[k][j]], Len(b))])])

\* c * m
Scale(c, m) ==
  Array([i \in 1..Len(m) |-> Array([j \in 1..Len(m[1]) |-> c * m[i][j]])])

\* -m
Neg(m) == Scale(-1, m)

\* a + b (equal shapes)
Add(a, b) ==
  Array([i \in 1..Len(a) |-> Array([j \in 1..Len(a[1]) |-> a[i][j] + b[i][j]])])

----------------------------------------------------------------------------
(* scipy.signal.convolve2d(in1, in2, mode, boundary='fill', fillvalue=0) *)

\* in1[i][j] (1-based), the fill value outside the array
AtFill(m, i, j) ==
  IF i >= 1 /\ i <= Len(m) /\ j >= 1 /\ j <= Len(m[1]) THEN m[i][j] ELSE 0

\* entry (p, q), 0-based, of the full discrete linear convolution
FullConv(in1, in2, p, q) ==
  SumTo([j \in 1..Len(in2) |->
           SumTo([k \in 1..Len(in2[1]) |->
                    AtFill(in1, p - (j - 1) + 1, q - (k - 1) + 1) * in2[j][k]],
                 Len(in2[1]))],
        Len(in2))

\* mode 'full': every entry of the full convolution; mode 'same': the size of
\* in1, centred with respect to the full output
convolve2d(in1, in2, mode) ==
  LET H == Len(in1)
      W == Len(in1[1])
      KH == Len(in2)
      KW == Len(in2[1])
  IN  IF mode = "full"
      THEN Array([m \in 1..(H + KH - 1) |-> Array([n \in 1..(W + KW - 1) |->
              FullConv(in1, in2, m - 1, n - 1)])])
      ELSE Array([m \in 1..H |-> Array([n \in 1..W |->
              FullConv(in1, in2, (m - 1) + ((KH - 1) \div 2),
                                 (n - 1) + ((KW - 1) \div 2))])])

----------------------------------------------------------------------------
(* ThetaImages.get_filter and ThetaImages.filter_with_theta *)

\* a precedence slip: -(filter_size // 2) + 1 for -filter_size // 2 + 1
IndexVectorNegAfter(fs) == NpArange(-(fs \div 2) + 1, fs \div 2 + 1)

\* x = np.arange(-filter_size // 2 + 1, filter_size // 2 + 1)
IndexVector(fs) == NpArange(((-fs) \div 2) + 1, fs \div 2 + 1)

\* g = np.array([np.exp(-(x**2) / (2 * sigma**2))]), a 1 x filter_size array
Gaussian(x, s) == << Array([i \in 1..Len(x) |-> NpExpNeg(x[i] * x[i], s)]) >>

\* gp = np.array([-(x / sigma) * np.exp(-(x**2) / (2 * sigma**2))])
GaussianDeriv(x, s) ==
  << Array([i \in 1..Len(x) |-> ((-x[i]) * NpExpNeg(x[i] * x[i], s)) \div s]) >>

\* the transpose forgotten in the second term
get_filter_no_transpose(t, s, fs) ==
  LET x == IndexVector(fs)
      g == Gaussian(x, s)
      gp == GaussianDeriv(x, s)
      gt_filter == MatMul(Transpose(g), gp)
  IN  Add(Scale(NpCos(t), gt_filter), Scale(NpSin(t), gt_filter))

\* the sine factor forgotten in the second term
get_filter_no_sin(t, s, fs) ==
  LET x == IndexVector(fs)
      g == Gaussian(x, s)
      gp == GaussianDeriv(x, s)
      gt_filter == MatMul(Transpose(g), gp)
  IN  Add(Scale(NpCos(t), gt_filter), Scale(TrigScale, Transpose(gt_filter)))

get_filter(t, s, fs) ==
  LET x == IndexVector(fs)
      g == Gaussian(x, s)
      gp == GaussianDeriv(x, s)
      gt_filter == MatMul(Transpose(g), gp)
  IN  Add(Scale(NpCos(t), gt_filter), Scale(NpSin(t), Transpose(gt_filter)))

\* gp used where the code uses -gp
filter_with_theta_plus_gp(img, t, s, fs) ==
  LET x == IndexVector(fs)
      g == Gaussian(x, s)
      gp == GaussianDeriv(x, s)
      ix1 == convolve2d(img, gp, "same")
      ix == convolve2d(ix1, Transpose(g), "same")
      iy1 == convolve2d(img, g, "same")
      iy == convolve2d(iy1, Transpose(gp), "same")
      output == Add(Scale(NpCos(t), ix), Scale(NpSin(t), iy))
      gt_filter == MatMul(Transpose(g), gp)
  IN  << output,
         Add(Scale(NpCos(t), gt_filter), Scale(NpSin(t), Transpose(gt_filter))) >>

\* mode='full' where the code says mode='same'
filter_with_theta_full(img, t, s, fs) ==
  LET x == IndexVector(fs)
      g == Gaussian(x, s)
      gp == GaussianDeriv(x, s)
      ix1 == convolve2d(img, Neg(gp), "full")
      ix == convolve2d(ix1, Transpose(g), "full")
      iy1 == convolve2d(img, g, "full")
      iy == convolve2d(iy1, Neg(Transpose(gp)), "full")
      output == Add(Scale(NpCos(t), ix), Scale(NpSin(t), iy))
      gt_filter == MatMul(Transpose(g), gp)
  IN  << output,
         Add(Scale(NpCos(t), gt_filter), Scale(NpSin(t), Transpose(gt_filter))) >>

\* the output accumulated into a buffer kept from the previous call
filter_with_theta_kept_buffer(img, t, s, fs) ==
  LET x == IndexVector(fs)
      g == Gaussian(x, s)
      gp == GaussianDeriv(x, s)
      ix1 == convolve2d(img, Neg(gp), "same")
      ix == convolve2d(ix1, Transpose(g), "same")
      iy1 == convolve2d(img, g, "same")
      iy == convolve2d(iy1, Neg(Transpose(gp)), "same")
      output == Add(Scale(NpCos(t), ix), Scale(NpSin(t), iy))
      gt_filter == MatMul(Transpose(g), gp)
      kept == IF calls # <<>> /\ calls[Len(calls)].fn = "filter_with_theta"
                   /\ Shape(calls[Len(calls)].ret[1]) = Shape(output)
              THEN Add(output, calls[Len(calls)].ret[1])
              ELSE output
  IN  << kept,
         Add(Scale(NpCos(t), gt_filter), Scale(NpSin(t), Transpose(gt_filter))) >>

filter_with_theta(img, t, s, fs) ==
  LET x == IndexVector(fs)
      g == Gaussian(x, s)
      gp == GaussianDeriv(x, s)
      ix1 == convolve2d(img, Neg(gp), "same")
      ix == convolve2d(ix1, Transpose(g), "same")
      iy1 == convolve2d(img, g, "same")
      iy == convolve2d(iy1, Neg(Transpose(gp)), "same")
      output == Add(Scale(NpCos(t), ix), Scale(NpSin(t), iy))
      gt_filter == MatMul(Transpose(g), gp)
  IN  << output,
         Add(Scale(NpCos(t), gt_filter), Scale(NpSin(t), Transpose(gt_filter))) >>

----------------------------------------------------------------------------
(* Inputs *)

ImagesOfShape(h, w) == [1..h -> [1..w -> Pixels]]

\* an n x n image, zero except a single centre pixel equal to 1
Impulse(n) ==
  Array([i \in 1..n |-> Array([j \in 1..n |->
     IF i = (n + 1) \div 2 /\ j = (n + 1) \div 2 THEN 1 ELSE 0])])

Images ==
  UNION {ImagesOfShape(h, w) : h \in 1..MaxDim, w \in 1..MaxDim}
    \cup {Impulse(n) : n \in {k \in FilterSizes : k % 2 = 1}}

----------------------------------------------------------------------------
(* The parts of the state a specification leaves alone *)

IdleArgs ==
  /\ image = <<<<0>>>>
  /\ theta = 0
  /\ sigma = 1
  /\ filter_size = 1
  /\ out = <<>>
  /\ xs = <<>>
  /\ kernels = <<>>

IdleCalls == calls = <<>>

IdleIter ==
  /\ ds = <<>>
  /\ seeded = FALSE
  /\ pos = 0
  /\ yielded = <<>>
  /\ stopped = FALSE

IdleConc ==
  /\ given = <<>>
  /\ shared = <<>>
  /\ wtheta = <<>>
  /\ wpc = <<>>
  /\ wloc = <<>>
  /\ wret = <<>>

IdleDyn ==
  /\ inputs = <<>>
  /\ filters = <<>>
  /\ kernel_shape = 1
  /\ stride = 1
  /\ padding = "SAME"
  /\ rsl = <<>>

----------------------------------------------------------------------------
(* Calls of the two static methods on drawn arguments *)

InitArgs ==
  /\ theta \in Thetas
  /\ sigma \in Sigmas
  /\ filter_size \in FilterSizes
  /\ out = <<>>
  /\ xs = <<>>
  /\ kernels = <<>>

\* ThetaImages.filter_with_theta(image, theta, sigma, filter_size)
FilterWithTheta ==
  /\ out = <<>>
  /\ out' = filter_with_theta(image, theta, sigma, filter_size)
  /\ UNCHANGED <<image, theta, sigma, filter_size, xs, kernels>>
  /\ UNCHANGED <<callVars, iterVars, concVars, dynVars>>

\* ThetaImages.get_filter(theta, sigma, filter_size)
GetFilter ==
  /\ kernels = <<>>
  /\ xs' = IndexVector(filter_size)
  /\ kernels' = << get_filter(theta, sigma, filter_size) >>
  /\ UNCHANGED <<image, theta, sigma, filter_size, out>>
  /\ UNCHANGED <<callVars, iterVars, concVars, dynVars>>

\* ThetaImages.get_filter(theta + np.pi, sigma, filter_size)
GetFilterPlusPi ==
  /\ Len(kernels) = 1
  /\ kernels' = Append(kernels, get_filter(theta + PiTicks, sigma, filter_size))
  /\ UNCHANGED <<image, theta, sigma, filter_size, out, xs>>
  /\ UNCHANGED <<callVars, iterVars, concVars, dynVars>>

\* ThetaImages.get_filter(theta + 2 * np.pi, sigma, filter_size)
GetFilterPlusTwoPi ==
  /\ Len(kernels) = 2
  /\ kernels' = Append(kernels, get_filter(theta + 2 * PiTicks, sigma, filter_size))
  /\ UNCHANGED <<image, theta, sigma, filter_size, out, xs>>
  /\ UNCHANGED <<callVars, iterVars, concVars, dynVars>>

\* get_filter alone: the image plays no part
InitKernel ==
  /\ InitArgs
  /\ image = <<<<0>>>>
  /\ IdleCalls /\ IdleIter /\ IdleConc /\ IdleDyn

NextKernel == GetFilter \/ GetFilterPlusPi \/ GetFilterPlusTwoPi

SpecKernel == InitKernel /\ [][NextKernel]_vars

\* filter_with_theta and get_filter on the same arguments
InitFilter ==
  /\ InitArgs
  /\ image \in Images
  /\ IdleCalls /\ IdleIter /\ IdleConc /\ IdleDyn

NextFilter == FilterWithTheta \/ GetFilter

SpecFilter == InitFilter /\ [][NextFilter]_vars

----------------------------------------------------------------------------
(* Claims about get_filter and filter_with_theta *)

Odd(n) == n % 2 = 1

AllZero(m) == \A i \in 1..Len(m) : \A j \in 1..Len(m[i]) : m[i][j] = 0

\* C1 as stated: for odd filter_size the filtered image is the zero-filled
\* same-size 2D convolution of the image with get_filter(theta), and for an
\* image that is a single centre pixel equal to 1 it is the kernel itself.
C1_OutputIsConvWithKernel ==
  (out # <<>> /\ Odd(filter_size)) =>
    /\ out[1] = convolve2d(image, get_filter(theta, sigma, filter_size), "same")
    /\ image = Impulse(filter_size) => out[1] = get_filter(theta, sigma, filter_size)

\* C1 amended: for odd filter_size the filtered image is the zero-filled
\* same-size 2D convolution of the image with the NEGATED kernel
\* -get_filter(theta) (the separable path convolves with -gp), and for the
\* single-centre-pixel image it is the negated kernel.
C1_OutputIsConvWithNegKernel ==
  (out # <<>> /\ Odd(filter_size)) =>
    /\ out[1] = convolve2d(image, Neg(get_filter(theta, sigma, filter_size)), "same")
    /\ image = Impulse(filter_size) =>
         out[1] = Neg(get_filter(theta, sigma, filter_size))

\* the 9 x 9 single-centre-pixel image has been filtered with the default
\* filter_size and the response is not zero
C1_Witness ==
  /\ out # <<>>
  /\ filter_size = DefaultFilterSize
  /\ image = Impulse(DefaultFilterSize)
  /\ ~AllZero(out[1])

\* C2: the second value filter_with_theta returns equals, entry for entry,
\* what get_filter returns for the same theta, sigma and filter_size,
\* whatever the image.
C2_ReturnedKernelIsGetFilter ==
  (out # <<>> /\ kernels # <<>>) => out[2] = kernels[1]

\* both methods have been called on a non-zero image, with a kernel that is
\* not symmetric and a theta whose sine is not zero
C2_Witness ==
  /\ out # <<>>
  /\ kernels # <<>>
  /\ ~AllZero(image)
  /\ filter_size > 1
  /\ NpSin(theta) # 0
  /\ NpCos(theta) # 0
  /\ ~AllZero(out[2])

\* C3 as stated: for every positive filter_size, odd or even, x runs from
\* -floor(filter_size/2) to filter_size - floor(filter_size/2) - 1.
C3_IndexVectorFromMinusHalf ==
  xs # <<>> =>
    /\ Len(xs) = filter_size
    /\ \A i \in 1..Len(xs) : xs[i] = -(filter_size \div 2) + (i - 1)

\* C3 amended: for every positive filter_size, x is the run of consecutive
\* integers from -floor((filter_size - 1)/2) to floor(filter_size/2), so it
\* has exactly filter_size entries; for odd filter_size that is the run from
\* -floor(filter_size/2) to filter_size - floor(filter_size/2) - 1, and for
\* filter_size = 9 it is -4..4.
C3_IndexVectorRun ==
  xs # <<>> =>
    /\ Len(xs) = filter_size
    /\ \A i \in 1..Len(xs) : xs[i] = -((filter_size - 1) \div 2) + (i - 1)
    /\ xs[Len(xs)] = filter_size \div 2
    /\ Odd(filter_size) =>
         /\ xs[1] = -(filter_size \div 2)
         /\ xs[Len(xs)] = filter_size - (filter_size \div 2) - 1
    /\ filter_size = 9 => xs = <<-4, -3, -2, -1, 0, 1, 2, 3, 4>>

\* get_filter has built x for an even filter_size
C3_Witness == xs # <<>> /\ filter_size = 2 /\ xs = <<0, 1>>

\* C4: get_filter(theta + pi) is the entrywise negation of get_filter(theta),
\* and get_filter(theta + 2 pi) equals get_filter(theta).
C4_HalfTurnNegates ==
  /\ Len(kernels) >= 2 => kernels[2] = Neg(kernels[1])
  /\ Len(kernels) >= 3 => kernels[3] = kernels[1]

\* the three kernels of a default-size filter have been computed, for a theta
\* at which neither the cosine nor the sine vanishes
C4_Witness ==
  /\ Len(kernels) = 3
  /\ filter_size = DefaultFilterSize
  /\ NpCos(theta) # 0
  /\ NpSin(theta) # 0
  /\ ~AllZero(kernels[1])

\* C5: the filtered image has exactly the shape of the input image, also when
\* filter_size is larger than the image.
C5_ShapePreserved ==
  out # <<>> =>
    /\ Len(out[1]) = Len(image)
    /\ \A i \in 1..Len(out[1]) : Len(out[1][i]) = Len(image[1])

\* a non-square image smaller than the filter has been filtered
C5_Witness ==
  /\ out # <<>>
  /\ Len(image) # Len(image[1])
  /\ filter_size > Len(image)
  /\ filter_size > Len(image[1])
  /\ ~AllZero(out[1])

----------------------------------------------------------------------------
(* A run of calls of the two static methods, logged *)

CallImages == {Impulse(3), <<<<1, 0>>, <<1, 1>>>>}
CallThetas == {1, 6}
CallSizes == {2, 3}

InitCalls ==
  /\ calls = <<>>
  /\ IdleArgs /\ IdleIter /\ IdleConc /\ IdleDyn

\* ThetaImages.filter_with_theta(img, t, sigma, fs)
CallFilterWithTheta ==
  /\ Len(calls) < MaxCalls
  /\ \E img \in CallImages, t \in CallThetas, fs \in CallSizes :
       calls' = Append(calls, [fn |-> "filter_with_theta",
                               args |-> <<img, t, DefaultSigma, fs>>,
                               ret |-> filter_with_theta(img, t, DefaultSigma, fs)])
  /\ UNCHANGED <<argVars, iterVars, concVars, dynVars>>

\* ThetaImages.get_filter(t, sigma, fs)
CallGetFilter ==
  /\ Len(calls) < MaxCalls
  /\ \E t \in CallThetas, fs \in CallSizes :
       calls' = Append(calls, [fn |-> "get_filter",
                               args |-> <<t, DefaultSigma, fs>>,
                               ret |-> get_filter(t, DefaultSigma, fs)])
  /\ UNCHANGED <<argVars, iterVars, concVars, dynVars>>

NextCalls == CallFilterWithTheta \/ CallGetFilter

SpecCalls == InitCalls /\ [][NextCalls]_vars

----------------------------------------------------------------------------
(* ThetaImages.reset_state and ThetaImages.__iter__ *)

UpstreamPairs ==
  { << <<<<1, 0>>, <<1, 1>>>>, 0 >>,
    << <<<<0, 1, 1>>>>, 1 >>,
    << <<<<1>>, <<0>>>>, 0 >> }

Upstreams == UNION {[1..n -> UpstreamPairs] : n \in 0..MaxLen}

\* self.rng.uniform(low, high): a value of [low, high)
RngUniform(low, high) == low..(high - 1)

InitIter ==
  /\ ds \in Upstreams
  /\ seeded = FALSE
  /\ pos = 0
  /\ yielded = <<>>
  /\ stopped = FALSE
  /\ IdleArgs /\ IdleCalls /\ IdleConc /\ IdleDyn

\* reset_state: RNGDataFlow.reset_state sets self.rng
ResetState ==
  /\ ~seeded
  /\ seeded' = TRUE
  /\ UNCHANGED <<ds, pos, yielded, stopped>>
  /\ UNCHANGED <<argVars, callVars, concVars, dynVars>>

\* the datapoint's theta drawn again after the filtering
IterYieldRedraws ==
  /\ seeded /\ ~stopped
  /\ pos < Len(ds)
  /\ \E t \in RngUniform(0, TurnTicks), t2 \in RngUniform(0, TurnTicks) :
       LET img == ds[pos + 1][1]
           r == filter_with_theta(img, t, DefaultSigma, DefaultFilterSize)
       IN  yielded' = Append(yielded, <<t2, img, r[1], r[2]>>)
  /\ pos' = pos + 1
  /\ UNCHANGED <<ds, seeded, stopped>>
  /\ UNCHANGED <<argVars, callVars, concVars, dynVars>>

\* one turn of the loop of __iter__: the next upstream pair, a theta drawn,
\* the image filtered, the datapoint yielded
IterYield ==
  /\ seeded /\ ~stopped
  /\ pos < Len(ds)
  /\ \E t \in RngUniform(0, TurnTicks) :
       LET img == ds[pos + 1][1]
           r == filter_with_theta(img, t, DefaultSigma, DefaultFilterSize)
       IN  yielded' = Append(yielded, <<t, img, r[1], r[2]>>)
  /\ pos' = pos + 1
  /\ UNCHANGED <<ds, seeded, stopped>>
  /\ UNCHANGED <<argVars, callVars, concVars, dynVars>>

\* the upstream is exhausted: __iter__ returns
IterStop ==
  /\ seeded /\ ~stopped
  /\ pos = Len(ds)
  /\ stopped' = TRUE
  /\ UNCHANGED <<ds, seeded, pos, yielded>>
  /\ UNCHANGED <<argVars, callVars, concVars, dynVars>>

NextIter == ResetState \/ IterYield \/ IterStop

SpecIter == InitIter /\ [][NextIter]_vars

\* C9: one pass of __iter__ yields one datapoint per upstream pair, in
\* upstream order, each [theta, image, filtered_image, gt_filter] with theta
\* in [0, 2 pi), the upstream image unchanged, and filtered_image and
\* gt_filter what filter_with_theta returns for that image and that theta.
C9_OneDatapointPerPair ==
  /\ Len(yielded) = pos
  /\ pos <= Len(ds)
  /\ stopped => Len(yielded) = Len(ds)
  /\ \A i \in 1..Len(yielded) :
       /\ Len(yielded[i]) = 4
       /\ yielded[i][1] >= 0 /\ yielded[i][1] < TurnTicks
       /\ yielded[i][2] = ds[i][1]
       /\ <<yielded[i][3], yielded[i][4]>> =
            filter_with_theta(ds[i][1], yielded[i][1], DefaultSigma, DefaultFilterSize)

\* a pass over two different upstream images has ended, with two different
\* thetas drawn and non-zero responses
C9_Witness ==
  /\ stopped
  /\ Len(ds) = 2
  /\ ds[1][1] # ds[2][1]
  /\ Len(yielded) = 2
  /\ yielded[1][1] # yielded[2][1]
  /\ ~AllZero(yielded[1][3])
  /\ ~AllZero(yielded[2][3])

----------------------------------------------------------------------------
(* Concurrent invocations of filter_with_theta(shared, wtheta[w]), one per  *)
(* worker, each with the default sigma and filter_size; a step is one       *)
(* statement of the method, and all workers are handed the same image       *)
(* object.                                                                  *)

Workers == 1..NumWorkers

WorkerImages == {<<<<1, 0>>, <<1, 1>>>>, <<<<0, 1, 1>>>>}
WorkerThetas == {1, 3, 6}

NoLocals ==
  [x |-> <<>>, g |-> <<>>, gp |-> <<>>, ix |-> <<>>, iy |-> <<>>,
   output |-> <<>>, gt_filter |-> <<>>]

InitConc ==
  /\ given \in WorkerImages
  /\ shared = given
  /\ wtheta \in {f \in [Workers -> WorkerThetas] :
                   \A v, w \in Workers : v # w => f[v] # f[w]}
  /\ wpc = [w \in Workers |-> 186]
  /\ wloc = [w \in Workers |-> NoLocals]
  /\ wret = [w \in Workers |-> <<>>]
  /\ IdleArgs /\ IdleCalls /\ IdleIter /\ IdleDyn

\* worker w moves to line n with its locals changed to l
Goto(w, n, l) ==
  /\ wpc' = [wpc EXCEPT ![w] = n]
  /\ wloc' = [wloc EXCEPT ![w] = l]

NoOthers == UNCHANGED <<argVars, callVars, iterVars, dynVars>>

\* x = np.arange(-filter_size // 2 + 1, filter_size // 2 + 1)
Line186(w) ==
  /\ wpc[w] = 186
  /\ Goto(w, 188, [wloc[w] EXCEPT !.x = IndexVector(DefaultFilterSize)])
  /\ UNCHANGED <<given, shared, wtheta, wret>> /\ NoOthers

\* g = np.array([np.exp(-(x**2) / (2 * sigma**2))])
Line188(w) ==
  /\ wpc[w] = 188
  /\ Goto(w, 190, [wloc[w] EXCEPT !.g = Gaussian(wloc[w].x, DefaultSigma)])
  /\ UNCHANGED <<given, shared, wtheta, wret>> /\ NoOthers

\* gp = np.array([-(x / sigma) * np.exp(-(x**2) / (2 * sigma**2))])
Line190(w) ==
  /\ wpc[w] = 190
  /\ Goto(w, 192, [wloc[w] EXCEPT !.gp = GaussianDeriv(wloc[w].x, DefaultSigma)])
  /\ UNCHANGED <<given, shared, wtheta, wret>> /\ NoOthers

\* the response written back into the image: image[:] = convolve2d(image, -gp, ...)
Line192InPlace(w) ==
  /\ wpc[w] = 192
  /\ Goto(w, 193, [wloc[w] EXCEPT
                     !.ix = convolve2d(shared, Neg(wloc[w].gp), "same")])
  /\ shared' = convolve2d(shared, Neg(wloc[w].gp), "same")
  /\ UNCHANGED <<given, wtheta, wret>> /\ NoOthers

\* ix = convolve2d(image, -gp, mode='same', boundary='fill', fillvalue=0)
Line192(w) ==
  /\ wpc[w] = 192
  /\ Goto(w, 193, [wloc[w] EXCEPT
                     !.ix = convolve2d(shared, Neg(wloc[w].gp), "same")])
  /\ UNCHANGED <<given, shared, wtheta, wret>> /\ NoOthers

\* ix = convolve2d(ix, g.T, mode='same', boundary='fill', fillvalue=0)
Line193(w) ==
  /\ wpc[w] = 193
  /\ Goto(w, 195, [wloc[w] EXCEPT
                     !.ix = convolve2d(wloc[w].ix, Transpose(wloc[w].g), "same")])
  /\ UNCHANGED <<given, shared, wtheta, wret>> /\ NoOthers

\* iy = convolve2d(image, g, mode='same', boundary='fill', fillvalue=0)
Line195(w) ==
  /\ wpc[w] = 195
  /\ Goto(w, 196, [wloc[w] EXCEPT !.iy = convolve2d(shared, wloc[w].g, "same")])
  /\ UNCHANGED <<given, shared, wtheta, wret>> /\ NoOthers

\* iy = convolve2d(iy, -gp.T, mode='same', boundary='fill', fillvalue=0)
Line196(w) ==
  /\ wpc[w] = 196
  /\ Goto(w, 198, [wloc[w] EXCEPT
                     !.iy = convolve2d(wloc[w].iy, Neg(Transpose(wloc[w].gp)), "same")])
  /\ UNCHANGED <<given, shared, wtheta, wret>> /\ NoOthers

\* output = np.cos(theta) * ix + np.sin(theta) * iy
Line198(w) ==
  /\ wpc[w] = 198
  /\ Goto(w, 201, [wloc[w] EXCEPT
                     !.output = Add(Scale(NpCos(wtheta[w]), wloc[w].ix),
                                    Scale(NpSin(wtheta[w]), wloc[w].iy))])
  /\ UNCHANGED <<given, shared, wtheta, wret>> /\ NoOthers

\* gt_filter = np.matmul(g.T, gp)
Line201(w) ==
  /\ wpc[w] = 201
  /\ Goto(w, 202, [wloc[w] EXCEPT
                     !.gt_filter = MatMul(Transpose(wloc[w].g), wloc[w].gp)])
  /\ UNCHANGED <<given, shared, wtheta, wret>> /\ NoOthers

\* gt_filter = np.cos(theta) * gt_filter + np.sin(theta) * gt_filter.T
Line202(w) ==
  /\ wpc[w] = 202
  /\ Goto(w, 204, [wloc[w] EXCEPT
                     !.gt_filter = Add(Scale(NpCos(wtheta[w]), wloc[w].gt_filter),
                                       Scale(NpSin(wtheta[w]),
                                             Transpose(wloc[w].gt_filter)))])
  /\ UNCHANGED <<given, shared, wtheta, wret>> /\ NoOthers

\* return output, gt_filter
Line204(w) ==
  /\ wpc[w] = 204
  /\ wret' = [wret EXCEPT ![w] = <<wloc[w].output, wloc[w].gt_filter>>]
  /\ wpc' = [wpc EXCEPT ![w] = 0]
  /\ UNCHANGED <<given, shared, wtheta, wloc>> /\ NoOthers

NextConc ==
  \E w \in Workers :
    \/ Line186(w) \/ Line188(w) \/ Line190(w) \/ Line192(w) \/ Line193(w)
    \/ Line195(w) \/ Line196(w) \/ Line198(w) \/ Line201(w) \/ Line202(w)
    \/ Line204(w)

SpecConc == InitConc /\ [][NextConc]_vars

\* C7: under every interleaving each invocation returns the pair it returns
\* when run alone, the image handed in is never written, and a worker's
\* locals hold nothing but what its own statements computed from the image
\* and its own theta.
C7_InterleavingsAgreeWithAlone ==
  /\ shared = given
  /\ \A w \in Workers :
       /\ wpc[w] = 0 =>
            wret[w] = filter_with_theta(given, wtheta[w], DefaultSigma, DefaultFilterSize)
       /\ wpc[w] # 0 => wret[w] = <<>>
       /\ wloc[w].output # <<>> =>
            wloc[w].output =
              filter_with_theta(given, wtheta[w], DefaultSigma, DefaultFilterSize)[1]

\* one invocation has returned a non-zero response while another, with a
\* different theta, is between its two reads of the image
C7_Witness ==
  \E v, w \in Workers :
    /\ v # w
    /\ wpc[v] = 0
    /\ ~AllZero(wret[v][1])
    /\ wpc[w] \in {193, 195}
    /\ wtheta[v] # wtheta[w]

----------------------------------------------------------------------------
(* tensorflow: a tensor is its shape and its entries in row-major order *)

RECURSIVE Prod(_)
Prod(s) == IF s = <<>> THEN 1 ELSE Head(s) * Prod(Tail(s))

Max(a, b) == IF a >= b THEN a ELSE b
Min(a, b) == IF a <= b THEN a ELSE b

\* tf.reshape(t, shape)
TfReshape(t, shape) == [shape |-> shape, data |-> t.data]

\* tf.unstack(t): the slices along axis 0
TfUnstack(t) ==
  LET n == Prod(Tail(t.shape))
  IN  Array([i \in 1..t.shape[1] |->
              [shape |-> Tail(t.shape),
               data |-> SubSeq(t.data, (i - 1) * n + 1, i * n)]])

RECURSIVE ConcatData(_, _)
ConcatData(ts, n) == IF n = 0 THEN <<>> ELSE ConcatData(ts, n - 1) \o ts[n].data

\* tf.concat(ts, axis=0)
TfConcat0(ts) ==
  [shape |-> <<SumTo([i \in 1..Len(ts) |-> ts[i].shape[1]], Len(ts))>>
               \o Tail(ts[1].shape),
   data |-> ConcatData(ts, Len(ts))]

\* the output size of tf.nn.conv2d along one axis
ConvOutSize(n, k, s, pad) ==
  IF pad = "SAME" THEN (n + s - 1) \div s ELSE ((n - k) \div s) + 1

\* the zero padding tf.nn.conv2d puts before an axis
ConvPadBefore(n, k, s, pad) ==
  IF pad = "SAME"
  THEN Max((ConvOutSize(n, k, s, pad) - 1) * s + k - n, 0) \div 2
  ELSE 0

\* tf.nn.conv2d(input, filter, strides, padding): input [1, h, w, ic],
\* filter [kh, kw, ic, oc], a cross-correlation
TfConv2d(input, filter, strides, pad) ==
  LET h == input.shape[2]
      w == input.shape[3]
      ic == input.shape[4]
      kh == filter.shape[1]
      kw == filter.shape[2]
      oc == filter.shape[4]
      sh == strides[2]
      sw == strides[3]
      oh == ConvOutSize(h, kh, sh, pad)
      ow == ConvOutSize(w, kw, sw, pad)
      pt == ConvPadBefore(h, kh, sh, pad)
      pl == ConvPadBefore(w, kw, sw, pad)
      In(y, x, c) ==
        IF y >= 0 /\ y < h /\ x >= 0 /\ x < w
        THEN input.data[(y * w + x) * ic + c + 1] ELSE 0
      F(a, b, c, o) == filter.data[((a * kw + b) * ic + c) * oc + o + 1]
      Entry(y, x, o) ==
        SumTo([a \in 1..kh |->
          SumTo([b \in 1..kw |->
            SumTo([c \in 1..ic |->
                     In(y * sh + (a - 1) - pt, x * sw + (b - 1) - pl, c - 1)
                       * F(a - 1, b - 1, c - 1, o)],
                  ic)], kw)], kh)
  IN  [shape |-> <<1, oh, ow, oc>>,
       data |-> Array([n \in 1..(oh * ow * oc) |->
                  Entry((n - 1) \div (ow * oc), ((n - 1) \div oc) % ow, (n - 1) % oc)])]

\* tensorpack.utils.argtools.shape4d and shape2d of an int
shape4d(a) == <<1, a, a, 1>>
shape2d(a) == <<a, a>>

----------------------------------------------------------------------------
(* DynamicConvFilter *)

\* every sample convolved with the first filter
DynamicConvFilterFirstFilter(inp, flt, out_channel, kshape, strd, pad) ==
  LET batch_size == inp.shape[1]
      h == inp.shape[2]
      w == inp.shape[3]
      in_channel == inp.shape[4]
      stride4 == shape4d(strd)
      ins == TfUnstack(inp)
      fls == TfUnstack(TfReshape(flt,
               <<batch_size>> \o shape2d(kshape) \o <<in_channel, out_channel>>))
      res == Array([i \in 1..Min(Len(ins), Len(fls)) |->
               TfConv2d(TfReshape(ins[i], <<1, h, w, in_channel>>),
                        TfReshape(fls[1], <<kshape, kshape, in_channel, out_channel>>),
                        stride4, "SAME")])
  IN  TfConcat0(res)

\* the padding argument is not used: every tf.nn.conv2d gets padding="SAME"
DynamicConvFilter(inp, flt, out_channel, kshape, strd, pad) ==
  LET batch_size == inp.shape[1]
      h == inp.shape[2]
      w == inp.shape[3]
      in_channel == inp.shape[4]
      stride4 == shape4d(strd)
      ins == TfUnstack(inp)
      fls == TfUnstack(TfReshape(flt,
               <<batch_size>> \o shape2d(kshape) \o <<in_channel, out_channel>>))
      res == Array([i \in 1..Min(Len(ins), Len(fls)) |->
               TfConv2d(TfReshape(ins[i], <<1, h, w, in_channel>>),
                        TfReshape(fls[i], <<kshape, kshape, in_channel, out_channel>>),
                        stride4, "SAME")])
  IN  TfConcat0(res)

\* the h x w array with entries 1, 2, ... in row-major order
Ramp(h, w) == Array([y \in 1..h |-> Array([x \in 1..w |-> (y - 1) * w + x])])

\* the h x w array that is 1 at its first entry and 0 elsewhere
Corner(h, w) ==
  Array([y \in 1..h |-> Array([x \in 1..w |-> IF y = 1 /\ x = 1 THEN 1 ELSE 0])])

SamplePool(h, w) == {Ramp(h, w), Corner(h, w)}

RECURSIVE FlattenRows(_, _)
FlattenRows(m, n) == IF n = 0 THEN <<>> ELSE FlattenRows(m, n - 1) \o m[n]

\* the [b, h, w, 1] tensor of b single-channel h x w arrays
Stack(ms, h, w) ==
  [shape |-> <<Len(ms), h, w, 1>>,
   data |-> ConcatData([i \in 1..Len(ms) |-> [data |-> FlattenRows(ms[i], h)]],
                       Len(ms))]

ImageSizes == {2, 3}
KernelShapes == {1, 2, 3}
Strides == {1, 2}
Paddings == {"SAME", "VALID", "same", "valid"}

InitDyn ==
  /\ kernel_shape \in KernelShapes
  /\ stride \in Strides
  /\ padding \in Paddings
  /\ \E b \in 1..MaxBatch, h \in ImageSizes, w \in ImageSizes :
       /\ inputs \in {Stack(ms, h, w) : ms \in [1..b -> SamplePool(h, w)]}
       /\ filters \in {Stack(ks, kernel_shape, kernel_shape) :
                         ks \in [1..b -> SamplePool(kernel_shape, kernel_shape)]}
  /\ rsl = <<>>
  /\ IdleArgs /\ IdleCalls /\ IdleIter /\ IdleConc

\* DynamicConvFilter(inputs, filters, 1, kernel_shape, stride, padding)
CallDynamicConvFilter ==
  /\ rsl = <<>>
  /\ rsl' = << DynamicConvFilter(inputs, filters, 1, kernel_shape, stride, padding) >>
  /\ UNCHANGED <<inputs, filters, kernel_shape, stride, padding>>
  /\ UNCHANGED <<argVars, callVars, iterVars, concVars>>

NextDyn == CallDynamicConvFilter

SpecDyn == InitDyn /\ [][NextDyn]_vars

\* str.upper() of a padding mode
Upper(p) == IF p \in {"SAME", "same"} THEN "SAME" ELSE "VALID"

\* C8: the padding argument selects the padding mode, case-insensitively: at
\* stride 1, 'valid' gives an output of (h - k + 1) x (w - k + 1) and 'same'
\* one of h x w (k no larger than h and w).
C8_PaddingSelectsMode ==
  (/\ rsl # <<>>
   /\ stride = 1
   /\ kernel_shape <= inputs.shape[2]
   /\ kernel_shape <= inputs.shape[3]) =>
    LET h == inputs.shape[2]
        w == inputs.shape[3]
        k == kernel_shape
        o == rsl[1].shape
    IN  /\ Upper(padding) = "VALID" => <<o[2], o[3]>> = <<h - k + 1, w - k + 1>>
        /\ Upper(padding) = "SAME" => <<o[2], o[3]>> = <<h, w>>

\* sample i of a [b, h, w, 1] tensor, as a [1, h, w, 1] tensor
SampleOf(t, i) ==
  LET n == t.shape[2] * t.shape[3]
  IN  [shape |-> <<1, t.shape[2], t.shape[3], 1>>,
       data |-> SubSeq(t.data, (i - 1) * n + 1, i * n)]

\* filter i of a [b, k, k, 1] tensor, as a [k, k, 1, 1] tensor
FilterOf(t, i) ==
  LET n == t.shape[2] * t.shape[3]
  IN  [shape |-> <<t.shape[2], t.shape[3], 1, 1>>,
       data |-> SubSeq(t.data, (i - 1) * n + 1, i * n)]

\* slice i along axis 0 of the output
SliceOf(t, i) ==
  LET n == Prod(Tail(t.shape))
  IN  SubSeq(t.data, (i - 1) * n + 1, i * n)

\* C10: the output has exactly b slices along axis 0, and slice i is the
\* convolution of input i with filter i, in the order of the inputs.
C10_PairedByBatchIndex ==
  rsl # <<>> =>
    /\ rsl[1].shape[1] = inputs.shape[1]
    /\ Len(rsl[1].data) = Prod(rsl[1].shape)
    /\ \A i \in 1..inputs.shape[1] :
         SliceOf(rsl[1], i) =
           TfConv2d(SampleOf(inputs, i), FilterOf(filters, i),
                    shape4d(stride), "SAME").data

\* a batch of two has been filtered in which the two inputs differ, the two
\* filters differ, and pairing an input with the other filter would have
\* given another slice
C10_Witness ==
  /\ rsl # <<>>
  /\ inputs.shape[1] = 2
  /\ SampleOf(inputs, 1) # SampleOf(inputs, 2)
  /\ FilterOf(filters, 1) # FilterOf(filters, 2)
  /\ SliceOf(rsl[1], 1) # SliceOf(rsl[1], 2)
  /\ SliceOf(rsl[1], 1) #
       TfConv2d(SampleOf(inputs, 1), FilterOf(filters, 2), shape4d(stride), "SAME").data
  /\ SliceOf(rsl[1], 2) #
       TfConv2d(SampleOf(inputs, 2), FilterOf(filters, 1), shape4d(stride), "SAME").data

====
